---- MODULE Spec2Model ----
(***************************************************************************)
(* Model of the particle simulation kernel of src/src/main.rs:            *)
(* GameState::new, EventHandler::update, GameState::handle_collisions,    *)
(* GameState::handle_movement and the methods of Particle.                *)
(*                                                                         *)
(* Numbers.  The program computes in f32.  Here every f32 quantity        *)
(* (position, velocity, radius, mass, direction cosine) is a fixed-point  *)
(* integer counting units of 1/ONE, and every arithmetic operation rounds *)
(* its exact result to the nearest unit, as an f32 operation rounds to    *)
(* the nearest representable value.  The frame time is counted in units   *)
(* of 1/TIME_ONE second so that 1/60 s and 1/10 s are both exact.         *)
(* Particle indices are 0-based as in the source.                         *)
(*                                                                         *)
(* One call of EventHandler::update is the chain of steps BeginUpdate,    *)
(* one ResolvePair or SkipPair per pair of the sweep, EndCollisions, one  *)
(* MoveParticle per particle, EndUpdate; pc, i, j and k hold the position *)
(* in the call, so the order of the steps is the order of the source.     *)
(***************************************************************************)
EXTENDS Integers, Sequences, FiniteSets, TLC

VARIABLES
    particles,      \* GameState.particles : [0..N-1 -> Particle]
    pc,             \* position inside EventHandler::update
    i, j,           \* loop indices of handle_collisions
    k,              \* loop index of handle_movement
    time_elapsed,   \* the dt of the running update
    ticks,          \* number of completed update calls
    initial,        \* history: the particles as GameState::new built them
    start,          \* history: the particles when the running update began
    swept,          \* history: the particles when handle_collisions returned
    visited,        \* history: pairs tested by this update's sweep, in order
    collided,       \* history: pairs found colliding by this update's sweep
    stuck           \* history: pairs found colliding by every sweep so far

vars == <<particles, pc, i, j, k, time_elapsed, ticks,
          initial, start, swept, visited, collided, stuck>>

(***************************************************************************)
(* Bounds of the model.                                                    *)
(***************************************************************************)
MaxN == 3           \* population sizes 1 .. MaxN (the program ships N = 20)
MaxTicks == 2       \* update calls per run under Spec
MaxRunTicks == 30   \* update calls per run under SpecDefault
FewTicks == 10      \* "a few ticks"

(***************************************************************************)
(* Fixed-point arithmetic.                                                 *)
(***************************************************************************)
ONE == 32           \* units per pixel, per pixel/second, per unit of mass
TIME_ONE == 960     \* units per second of frame time

Abs(x) == IF x < 0 THEN -x ELSE x

Min(x, y) == IF x < y THEN x ELSE y

\* n / d rounded to the nearest integer, halves away from zero (d > 0).
RoundDiv(n, d) ==
    LET m == Abs(n)
        q == (m \div d) + (IF 2 * (m % d) >= d THEN 1 ELSE 0)
    IN  IF n >= 0 THEN q ELSE -q

\* f32 product and quotient of two fixed-point numbers.
FMul(x, y) == RoundDiv(x * y, ONE)

FDiv(x, y) == RoundDiv(x * ONE, y)

\* x * time_elapsed, for a frame time of dt / TIME_ONE seconds.
MulDt(x, dt) == RoundDiv(x * dt, TIME_ONE)

RECURSIVE SqrtSearch(_, _, _)
SqrtSearch(n, lo, hi) ==
    IF lo >= hi THEN lo
    ELSE LET mid == (lo + hi + 1) \div 2
         IN  IF mid * mid <= n THEN SqrtSearch(n, mid, hi)
                               ELSE SqrtSearch(n, lo, mid - 1)

\* f32::sqrt of a sum of two products: the argument n is at scale ONE*ONE,
\* the result at scale ONE, rounded to nearest.
Sqrt(n) ==
    LET f == SqrtSearch(n, 0, 46340)
    IN  IF n - f * f > f THEN f + 1 ELSE f

\* The f32 NaN that 0.0 / 0.0 yields; every other value of the direction
\* cosines below is >= 0.
NaN == -1

(***************************************************************************)
(* Constants of the program.                                               *)
(***************************************************************************)
SCREEN_WIDTH == 1280 * ONE
SCREEN_HEIGHT == 720 * ONE
RESTITUTION == ONE
ACCELERATION == [x |-> -ONE, y |-> 2 * ONE]
RESISTANCE == [x |-> 0, y |-> 0]
TWO == 2 * ONE

\* The palette of GameState::new.
Palette ==
    { <<170, 216, 211>>, <<50, 175, 230>>, <<0, 173, 181>>, <<10, 17, 200>>,
      <<150, 150, 20>>, <<0, 90, 45>>, <<200, 100, 50>> }

(***************************************************************************)
(* Particle.                                                               *)
(***************************************************************************)
\* Particle::new
NewParticle(px, py, vx, vy, rad, mass, color) ==
    [pos |-> [x |-> px, y |-> py], vel |-> [x |-> vx, y |-> vy],
     rad |-> rad, mass |-> mass, color |-> color]

\* Particle::distance
distance(p, q) ==
    LET dx == p.pos.x - q.pos.x
        dy == p.pos.y - q.pos.y
    IN  Sqrt(dx * dx + dy * dy)

\* Particle::is_colliding
is_colliding(p, q) == distance(p, q) - (p.rad + q.rad) <= ONE \div 2

\* Particle::vel_magnitude
vel_magnitude(p) == Sqrt(p.vel.x * p.vel.x + p.vel.y * p.vel.y)

\* Reflect with the sign flipped instead of forced (no abs).
Reflect_Negate(c, rad, v, extent) ==
    IF c - rad < 0 THEN FMul(-v, RESTITUTION)
    ELSE IF c + rad > extent THEN FMul(-v, RESTITUTION)
    ELSE v

\* The bound checks of Particle::update: the velocity component after the
\* wall reflection, for a position component c and an arena extent.
Reflect(c, rad, v, extent) ==
    IF c - rad < 0 THEN FMul(Abs(v), RESTITUTION)
    ELSE IF c + rad > extent THEN FMul(Abs(v), -RESTITUTION)
    ELSE v

\* The resistance and acceleration lines of Particle::update.
Accelerate(v, acc, res, dt) == v + MulDt(acc - FMul(FMul(v, v), res), dt)

\* update advancing the position with the velocity it was entered with,
\* the reflection applied only afterwards.
update_PosBeforeReflect(p, dt) ==
    LET vx == Reflect(p.pos.x, p.rad, p.vel.x, SCREEN_WIDTH)
        vy == Reflect(p.pos.y, p.rad, p.vel.y, SCREEN_HEIGHT)
    IN  [p EXCEPT
            !.pos = [x |-> p.pos.x + MulDt(p.vel.x, dt),
                     y |-> p.pos.y + MulDt(p.vel.y, dt)],
            !.vel = [x |-> Accelerate(vx, ACCELERATION.x, RESISTANCE.x, dt),
                     y |-> Accelerate(vy, ACCELERATION.y, RESISTANCE.y, dt)]]

\* update applying the acceleration before it advances the position.
update_VelocityFirst(p, dt) ==
    LET vx == Accelerate(Reflect(p.pos.x, p.rad, p.vel.x, SCREEN_WIDTH),
                         ACCELERATION.x, RESISTANCE.x, dt)
        vy == Accelerate(Reflect(p.pos.y, p.rad, p.vel.y, SCREEN_HEIGHT),
                         ACCELERATION.y, RESISTANCE.y, dt)
    IN  [p EXCEPT
            !.pos = [x |-> p.pos.x + MulDt(vx, dt),
                     y |-> p.pos.y + MulDt(vy, dt)],
            !.vel = [x |-> vx, y |-> vy]]

\* Particle::update
update(p, dt) ==
    LET vx == Reflect(p.pos.x, p.rad, p.vel.x, SCREEN_WIDTH)
        vy == Reflect(p.pos.y, p.rad, p.vel.y, SCREEN_HEIGHT)
    IN  [p EXCEPT
            !.pos = [x |-> p.pos.x + MulDt(vx, dt),
                     y |-> p.pos.y + MulDt(vy, dt)],
            !.vel = [x |-> Accelerate(vx, ACCELERATION.x, RESISTANCE.x, dt),
                     y |-> Accelerate(vy, ACCELERATION.y, RESISTANCE.y, dt)]]

(***************************************************************************)
(* Collision response of GameState::handle_collisions.                     *)
(***************************************************************************)
\* v1 with the two divisions by 2.0 left out.
ResolveV1_NoHalf(u1, u2, m2_div_m1) ==
    FMul(ONE - RESTITUTION, u1) + FMul(m2_div_m1 + RESTITUTION, u2)

\* v1: one component of the new velocity of particles[i].
ResolveV1(u1, u2, m2_div_m1) ==
    FMul(FDiv(ONE - RESTITUTION, TWO), u1)
        + FMul(FDiv(m2_div_m1 + RESTITUTION, TWO), u2)

\* v2: one component of the new velocity of particles[j].
ResolveV2(u1, u2, m2_div_m1) ==
    FMul(FDiv(ONE + RESTITUTION, TWO), u1)
        + FMul(FDiv(m2_div_m1 - RESTITUTION, TWO), u2)

\* |component / magnitude|
Cosine(v, magnitude) ==
    IF magnitude = 0 THEN NaN ELSE Abs(FDiv(v, magnitude))

\* ((x * y) * 256.0) as u8: the cast truncates, saturates at 255 and maps
\* NaN to 0 (the float-to-integer `as` of Rust 1.45 and later).
Channel(x, y) ==
    IF x = NaN \/ y = NaN THEN 0
    ELSE Min(255, (FMul(x, y) * 256) \div ONE)

\* The color both particles of a colliding pair receive, from their new
\* velocities.
NewColor(p, q) ==
    LET magnitude_1 == vel_magnitude(p)
        magnitude_2 == vel_magnitude(q)
        a == Cosine(p.vel.x, magnitude_1)
        b == Cosine(p.vel.y, magnitude_1)
        c == Cosine(q.vel.x, magnitude_2)
        d == Cosine(q.vel.y, magnitude_2)
    IN  <<Channel(a, b), Channel(c, d), Channel(d, a)>>

\* Resolve without the locals u1_x, u1_y: v2 is computed from the velocity
\* of particles[i] that the v1 lines have already overwritten.
Resolve_StaleU1(p, q) ==
    LET u2_x == q.vel.x
        u2_y == q.vel.y
        m2_div_m1 == FDiv(q.mass, p.mass)
        p1 == [p EXCEPT !.vel = [x |-> ResolveV1(p.vel.x, u2_x, m2_div_m1),
                                 y |-> ResolveV1(p.vel.y, u2_y, m2_div_m1)]]
        q1 == [q EXCEPT !.vel = [x |-> ResolveV2(p1.vel.x, u2_x, m2_div_m1),
                                 y |-> ResolveV2(p1.vel.y, u2_y, m2_div_m1)]]
        new_color == NewColor(p1, q1)
    IN  <<[p1 EXCEPT !.color = new_color], [q1 EXCEPT !.color = new_color]>>

\* Resolve exchanging the two particles themselves, radius and mass
\* included, where it should exchange what the formula gives their velocities.
Resolve_SwapsParticles(p, q) ==
    LET m2_div_m1 == FDiv(q.mass, p.mass)
        p1 == [q EXCEPT !.pos = p.pos,
                        !.vel = [x |-> ResolveV1(p.vel.x, q.vel.x, m2_div_m1),
                                 y |-> ResolveV1(p.vel.y, q.vel.y, m2_div_m1)]]
        q1 == [p EXCEPT !.pos = q.pos,
                        !.vel = [x |-> ResolveV2(p.vel.x, q.vel.x, m2_div_m1),
                                 y |-> ResolveV2(p.vel.y, q.vel.y, m2_div_m1)]]
        new_color == NewColor(p1, q1)
    IN  <<[p1 EXCEPT !.color = new_color], [q1 EXCEPT !.color = new_color]>>

\* The body of the `if is_colliding` branch for the pair (p, q) =
\* (particles[i], particles[j]): the pair after the branch.
Resolve(p, q) ==
    LET u1_x == p.vel.x
        u1_y == p.vel.y
        u2_x == q.vel.x
        u2_y == q.vel.y
        m2_div_m1 == FDiv(q.mass, p.mass)
        p1 == [p EXCEPT !.vel = [x |-> ResolveV1(u1_x, u2_x, m2_div_m1),
                                 y |-> ResolveV1(u1_y, u2_y, m2_div_m1)]]
        q1 == [q EXCEPT !.vel = [x |-> ResolveV2(u1_x, u2_x, m2_div_m1),
                                 y |-> ResolveV2(u1_y, u2_y, m2_div_m1)]]
        new_color == NewColor(p1, q1)
    IN  <<[p1 EXCEPT !.color = new_color], [q1 EXCEPT !.color = new_color]>>

(***************************************************************************)
(* The state machine.                                                      *)
(***************************************************************************)
num_particles == Cardinality(DOMAIN particles)

\* The unordered pairs of indices below n, each as <<smaller, larger>>.
AllPairs(n) == { <<a, b>> \in (0 .. n - 1) \X (0 .. n - 1) : a < b }

\* Particles handed to Particle::new in the runs of Spec.
Px(n) == n * ONE

\* The head-on pair, the heavier partner and the free flier of the
\* specification's scenarios.
SmallPool ==
    { NewParticle(Px(100), Px(360), Px(10), 0, Px(10), Px(1), <<170, 216, 211>>),
      NewParticle(Px(115), Px(360), Px(-10), 0, Px(10), Px(2), <<0, 173, 181>>),
      NewParticle(Px(640), Px(360), Px(10), 0, Px(10), Px(1), <<200, 100, 50>>) }

\* The same, the equal-mass partner of the head-on pair, and particles in
\* contact with each of the four walls, one of them at rest.
Pool ==
    SmallPool \cup
    { NewParticle(Px(115), Px(360), Px(-10), 0, Px(10), Px(1), <<50, 175, 230>>),
      NewParticle(Px(5), Px(360), Px(-20), 0, Px(10), Px(1), <<10, 17, 200>>),
      NewParticle(Px(5), Px(365), 0, 0, Px(12), Px(1), <<150, 150, 20>>),
      NewParticle(Px(640), Px(5), Px(10), Px(-30), Px(8), Px(1), <<0, 90, 45>>),
      NewParticle(Px(1275), Px(715), Px(30), Px(40), Px(10), Px(1), <<170, 216, 211>>) }

\* Frame times of Spec: 1/60 s and 1/10 s.
Dt60 == TIME_ONE \div 60

FrameTimes == { Dt60, TIME_ONE \div 10 }

InitFrom(pool, sizes) ==
    /\ \E n \in sizes : particles \in [0 .. n - 1 -> pool]
    /\ \A m \in DOMAIN particles : particles[m].color \in Palette
    /\ pc = "idle"
    /\ i = 0
    /\ j = 0
    /\ k = 0
    /\ time_elapsed = 0
    /\ ticks = 0
    /\ initial = particles
    /\ start = particles
    /\ swept = particles
    /\ visited = <<>>
    /\ collided = {}
    /\ stuck = AllPairs(num_particles)

\* One or two particles of Pool, or three and more of SmallPool.
Init == InitFrom(Pool, 1 .. 2) \/ InitFrom(SmallPool, 3 .. MaxN)

\* EventHandler::update is entered with the frame time dt.
BeginUpdate(dt, limit) ==
    /\ pc = "idle"
    /\ ticks < limit
    /\ pc' = "collisions"
    /\ time_elapsed' = dt
    /\ i' = 0
    /\ j' = 1
    /\ start' = particles
    /\ visited' = <<>>
    /\ collided' = {}
    /\ UNCHANGED <<particles, k, ticks, initial, swept, stuck>>

\* The loop heads of handle_collisions step to the next pair.
NextI == IF j + 1 < num_particles THEN i ELSE i + 1

NextJ == IF j + 1 < num_particles THEN j + 1 ELSE i + 2

\* ResolvePair reading the velocities the update started with (double
\* buffering) where the source reads the current ones.
ResolvePair_DoubleBuffered ==
    /\ pc = "collisions"
    /\ i < num_particles - 1
    /\ is_colliding(particles[i], particles[j])
    /\ LET r == Resolve([particles[i] EXCEPT !.vel = start[i].vel],
                        [particles[j] EXCEPT !.vel = start[j].vel])
       IN  particles' = [particles EXCEPT ![i] = r[1], ![j] = r[2]]
    /\ visited' = Append(visited, <<i, j>>)
    /\ collided' = collided \cup {<<i, j>>}
    /\ i' = NextI
    /\ j' = NextJ
    /\ UNCHANGED <<pc, k, time_elapsed, ticks, initial, start, swept, stuck>>

\* One iteration of the inner loop whose pair is colliding.
ResolvePair ==
    /\ pc = "collisions"
    /\ i < num_particles - 1
    /\ is_colliding(particles[i], particles[j])
    /\ LET r == Resolve(particles[i], particles[j])
       IN  particles' = [particles EXCEPT ![i] = r[1], ![j] = r[2]]
    /\ visited' = Append(visited, <<i, j>>)
    /\ collided' = collided \cup {<<i, j>>}
    /\ i' = NextI
    /\ j' = NextJ
    /\ UNCHANGED <<pc, k, time_elapsed, ticks, initial, start, swept, stuck>>

\* One iteration of the inner loop whose pair is not colliding.
SkipPair ==
    /\ pc = "collisions"
    /\ i < num_particles - 1
    /\ ~is_colliding(particles[i], particles[j])
    /\ visited' = Append(visited, <<i, j>>)
    /\ i' = NextI
    /\ j' = NextJ
    /\ UNCHANGED <<particles, pc, k, time_elapsed, ticks, initial, start,
                   swept, collided, stuck>>

\* handle_collisions returns and handle_movement starts.
EndCollisions ==
    /\ pc = "collisions"
    /\ ~(i < num_particles - 1)
    /\ pc' = "movement"
    /\ k' = 0
    /\ swept' = particles
    /\ stuck' = stuck \cap collided
    /\ UNCHANGED <<particles, i, j, time_elapsed, ticks, initial, start,
                   visited, collided>>

\* One iteration of the loop of handle_movement.
MoveParticle ==
    /\ pc = "movement"
    /\ k < num_particles
    /\ particles' = [particles EXCEPT ![k] = update(particles[k], time_elapsed)]
    /\ k' = k + 1
    /\ UNCHANGED <<pc, i, j, time_elapsed, ticks, initial, start, swept,
                   visited, collided, stuck>>

\* handle_movement returns and update returns Ok(()).
EndUpdate ==
    /\ pc = "movement"
    /\ ~(k < num_particles)
    /\ pc' = "idle"
    /\ ticks' = ticks + 1
    /\ UNCHANGED <<particles, i, j, k, time_elapsed, initial, start, swept,
                   visited, collided, stuck>>

Update == \E dt \in FrameTimes : BeginUpdate(dt, MaxTicks)

Next ==
    \/ Update
    \/ ResolvePair
    \/ SkipPair
    \/ EndCollisions
    \/ MoveParticle
    \/ EndUpdate

Spec == Init /\ [][Next]_vars

(***************************************************************************)
(* Runs of the shipped program: particles GameState::new can build (fully  *)
(* inside the arena, radius in [7.5, 12.5), mass in [1.0, 1.25), velocity  *)
(* components in [-80, 80), a palette color) and a frame time of 1/60 s.   *)
(***************************************************************************)
PoolDefault ==
    { NewParticle(Px(100), Px(360), Px(10), 0, Px(10), Px(1), <<170, 216, 211>>),
      NewParticle(Px(115), Px(360), Px(-10), 0, Px(10), Px(1), <<50, 175, 230>>),
      NewParticle(Px(166), Px(360), Px(-79), 0, (15 * ONE) \div 2, Px(1),
                  <<0, 173, 181>>),
      NewParticle(Px(166), Px(360), Px(-79), 0, (15 * ONE) \div 2,
                  (19 * ONE) \div 16, <<10, 17, 200>>) }

InitDefault == InitFrom(PoolDefault, 1 .. 2)

UpdateDefault == BeginUpdate(Dt60, MaxRunTicks)

NextDefault ==
    \/ UpdateDefault
    \/ ResolvePair
    \/ SkipPair
    \/ EndCollisions
    \/ MoveParticle
    \/ EndUpdate

SpecDefault == InitDefault /\ [][NextDefault]_vars

(***************************************************************************)
(* Properties.                                                             *)
(***************************************************************************)
Indices == 0 .. num_particles - 1

\* The sweep is about to test a pair that collides.
AtCollision ==
    /\ pc = "collisions"
    /\ i < num_particles - 1
    /\ is_colliding(particles[i], particles[j])

\* Particle m has been integrated by the latest update.
Moved(m) == (pc = "movement" /\ m < k) \/ (pc = "idle" /\ ticks > 0)

\* Particle m was in a colliding pair of the latest sweep.
Hit(m) == \E pr \in collided : pr[1] = m \/ pr[2] = m

\* One of the four wall conditions holds for p.
AtWall(p) ==
    \/ p.pos.x - p.rad < 0
    \/ p.pos.x + p.rad > SCREEN_WIDTH
    \/ p.pos.y - p.rad < 0
    \/ p.pos.y + p.rad > SCREEN_HEIGHT

\* The formula of the collision response, as the specification states it.
FormulaV1(u1, u2, r, e) == FMul(FDiv(ONE - e, TWO), u1) + FMul(FDiv(r + e, TWO), u2)

FormulaV2(u1, u2, r, e) == FMul(FDiv(ONE + e, TWO), u1) + FMul(FDiv(r - e, TWO), u2)

C1_Step ==
    AtCollision =>
        LET u1 == particles[i].vel
            u2 == particles[j].vel
            m1 == particles[i].mass
            m2 == particles[j].mass
            r == FDiv(m2, m1)
            e == RESTITUTION
        IN  /\ particles'[i].vel = [x |-> FormulaV1(u1.x, u2.x, r, e),
                                    y |-> FormulaV1(u1.y, u2.y, r, e)]
            /\ particles'[j].vel = [x |-> FormulaV2(u1.x, u2.x, r, e),
                                    y |-> FormulaV2(u1.y, u2.y, r, e)]
            /\ (e = ONE /\ m1 = m2) =>
                    particles'[i].vel = u2 /\ particles'[j].vel = u1
            /\ (e = ONE /\ m1 = ONE /\ m2 = 2 * ONE
                    /\ u1.x = 10 * ONE /\ u2.x = -10 * ONE) =>
                    particles'[i].vel.x = -15 * ONE /\ particles'[j].vel.x = 5 * ONE

\* C1: every step that resolves a colliding pair (i, j) sets, for x and for
\* y independently, vel_i = ((1-e)/2)*u1 + ((r+e)/2)*u2 and
\* vel_j = ((1+e)/2)*u1 + ((r-e)/2)*u2 from the velocities u1, u2 read
\* before the step and r = mass_j / mass_i; with e = 1 and equal masses the
\* velocities are exchanged, and with masses 1 and 2, u1.x = 10 and
\* u2.x = -10 the result is vel_i.x = -15 and vel_j.x = 5.
C1_CollisionFormula == [][C1_Step]_vars

\* The pair of masses 1 and 2 with velocities 10 and -10 has been resolved.
C1_Witness ==
    /\ pc = "movement"
    /\ k = 0
    /\ ticks = 0
    /\ num_particles = 2
    /\ <<0, 1>> \in collided
    /\ start[0].mass = ONE /\ start[1].mass = 2 * ONE
    /\ start[0].vel.x = 10 * ONE /\ start[1].vel.x = -10 * ONE
    /\ particles[0].vel.x = -15 * ONE /\ particles[1].vel.x = 5 * ONE

\* Resolving (q, p) with the inverse mass ratio gives the exchanged result
\* of resolving (p, q).
SwappedResult(p, q) ==
    LET r == FDiv(q.mass, p.mass)
        r_inv == FDiv(ONE, r)
    IN  /\ ResolveV1(q.vel.x, p.vel.x, r_inv) = ResolveV2(p.vel.x, q.vel.x, r)
        /\ ResolveV1(q.vel.y, p.vel.y, r_inv) = ResolveV2(p.vel.y, q.vel.y, r)
        /\ ResolveV2(q.vel.x, p.vel.x, r_inv) = ResolveV1(p.vel.x, q.vel.x, r)
        /\ ResolveV2(q.vel.y, p.vel.y, r_inv) = ResolveV1(p.vel.y, q.vel.y, r)

\* C2 as stated: for every pair of velocities and every mass ratio r,
\* resolving the pair with the particles exchanged and r' = 1/r yields the
\* exchanged result.
C2_Symmetry ==
    \A pr \in AllPairs(num_particles) :
        SwappedResult(particles[pr[1]], particles[pr[2]])

\* C2 as amended: the exchange symmetry holds for every pair of velocities
\* when the two masses are equal (r = r' = 1).
C2_SymmetryEqualMasses ==
    \A pr \in AllPairs(num_particles) :
        particles[pr[1]].mass = particles[pr[2]].mass =>
            SwappedResult(particles[pr[1]], particles[pr[2]])

\* A pair of equal masses and different, non-zero velocities has collided.
C2_Witness ==
    \E pr \in collided :
        /\ start[pr[1]].mass = start[pr[2]].mass
        /\ start[pr[1]].vel # start[pr[2]].vel
        /\ start[pr[1]].vel.x # 0
        /\ start[pr[2]].vel.x # 0
        /\ particles[pr[1]].vel # start[pr[1]].vel

\* The position update() gives a particle that entered it at position pos0
\* with velocity vel0.
Advanced(pos0, rad, vel0, dt) ==
    [x |-> pos0.x + MulDt(Reflect(pos0.x, rad, vel0.x, SCREEN_WIDTH), dt),
     y |-> pos0.y + MulDt(Reflect(pos0.y, rad, vel0.y, SCREEN_HEIGHT), dt)]

\* C3: within one update all pairs are resolved before any particle is
\* integrated: while the sweep runs every position is the one the update
\* started with; integration starts only when the sweep has tested every
\* pair; a particle not yet integrated still has the velocity the sweep left
\* it; and every integrated particle was advanced from its position at the
\* start of the update by the velocity the sweep left it, after wall
\* reflection.
C3_CollisionsBeforeIntegration ==
    /\ pc = "collisions" =>
            \A m \in Indices : particles[m].pos = start[m].pos
    /\ pc = "movement" =>
            /\ ~(i < num_particles - 1)
            /\ 2 * Len(visited) = num_particles * (num_particles - 1)
            /\ \A m \in Indices : m >= k => particles[m] = swept[m]
    /\ \A m \in Indices :
            Moved(m) =>
                /\ swept[m].pos = start[m].pos
                /\ particles[m].pos =
                        Advanced(start[m].pos, start[m].rad, swept[m].vel,
                                 time_elapsed)

\* A particle whose velocity a collision rewrote and a wall then reflected
\* has been integrated.
C3_Witness ==
    \E m \in Indices :
        /\ Moved(m)
        /\ Hit(m)
        /\ swept[m].vel # start[m].vel
        /\ start[m].pos.x - start[m].rad < 0
        /\ swept[m].vel.x < 0
        /\ particles[m].pos.x > start[m].pos.x

\* Lexicographic order of index pairs.
LexLess(a, b) == a[1] < b[1] \/ (a[1] = b[1] /\ a[2] < b[2])

\* The particles after the pairs of the sequence prs have been tested one
\* after the other, each colliding pair rewriting the particles the next
\* pair reads.
RECURSIVE SweepOver(_, _)
SweepOver(ps, prs) ==
    IF prs = <<>> THEN ps
    ELSE LET a == Head(prs)[1]
             b == Head(prs)[2]
             r == Resolve(ps[a], ps[b])
         IN  SweepOver(IF is_colliding(ps[a], ps[b])
                           THEN [ps EXCEPT ![a] = r[1], ![b] = r[2]]
                           ELSE ps,
                       Tail(prs))

\* C4: the sweep tests pairs (a, b) with a < b only, in strictly increasing
\* lexicographic order (so each at most once), and when it ends it has
\* tested every such pair; with one particle nothing is tested and the
\* collision branch is never entered; the particles are at every point of
\* the sweep what testing the pairs so far one after the other gives, each
\* colliding pair reading the velocities earlier pairs of the sweep left.
C4_SweepOrder ==
    /\ \A s \in 1 .. Len(visited) :
            /\ visited[s] \in AllPairs(num_particles)
            /\ \A t \in 1 .. Len(visited) :
                    s < t => LexLess(visited[s], visited[t])
    /\ pc \in {"movement", "idle"} =>
            { visited[s] : s \in 1 .. Len(visited) } =
                IF pc = "idle" /\ ticks = 0 THEN {}
                ELSE AllPairs(num_particles)
    /\ collided \subseteq { visited[s] : s \in 1 .. Len(visited) }
    /\ num_particles = 1 => visited = <<>> /\ collided = {}
    /\ pc = "collisions" => particles = SweepOver(start, visited)
    /\ (pc = "movement" \/ (pc = "idle" /\ ticks > 0)) =>
            swept = SweepOver(start, visited)

\* A sweep over three particles has resolved a pair one of whose members an
\* earlier pair of the same sweep had already rewritten.
C4_Witness ==
    /\ pc = "movement"
    /\ num_particles = 3
    /\ visited = <<<<0, 1>>, <<0, 2>>, <<1, 2>>>>
    /\ {<<0, 1>>, <<0, 2>>} \subseteq collided
    /\ start[0].vel # start[1].vel
    /\ start[1].vel # start[2].vel
    /\ start[0].mass # start[1].mass

\* C5 as stated: a particle with pos.x - rad < 0 at the start of an update
\* has vel.x >= 0 after that update.
C5_NonNegativeAfterStep ==
    \A m \in Indices :
        (pc = "idle" /\ ticks > 0 /\ start[m].pos.x - start[m].rad < 0) =>
            particles[m].vel.x >= 0

\* C5 as amended: for a particle with pos.x - rad < 0 at the start of an
\* update, the reflection sets vel.x to |vel.x| * e >= 0 before the position
\* is advanced, whatever the sign of vel.x, so pos.x does not decrease in
\* that update; the acceleration is added afterwards, so after the update
\* vel.x = |vel.x| * e + (A.x - (|vel.x| * e)^2 * R.x) * dt, which can be
\* negative.
C5_ReflectedBeforeAdvance ==
    \A m \in Indices :
        (Moved(m) /\ start[m].pos.x - start[m].rad < 0) =>
            LET v == FMul(Abs(swept[m].vel.x), RESTITUTION)
            IN  /\ v >= 0
                /\ particles[m].pos.x = start[m].pos.x + MulDt(v, time_elapsed)
                /\ particles[m].pos.x >= start[m].pos.x
                /\ particles[m].vel.x =
                        v + MulDt(ACCELERATION.x - FMul(FMul(v, v), RESISTANCE.x),
                                  time_elapsed)

\* A particle left of the wall line that was moving left, and one that was
\* moving right, have both been integrated.
C5_Witness ==
    /\ \E m \in Indices :
            /\ Moved(m)
            /\ start[m].pos.x - start[m].rad < 0
            /\ swept[m].vel.x < 0
            /\ particles[m].vel.x > 0
    /\ \E m \in Indices :
            /\ Moved(m)
            /\ start[m].pos.x - start[m].rad < 0
            /\ swept[m].vel.x > 0

\* C6 as stated: in a run of the shipped program with dt = 1/60, after every
\* update every particle satisfies -rad <= pos.x <= W + rad and
\* -rad <= pos.y <= H + rad.
C6_Containment ==
    (pc = "idle" /\ ticks > 0) =>
        \A m \in Indices :
            /\ -particles[m].rad <= particles[m].pos.x
            /\ particles[m].pos.x <= SCREEN_WIDTH + particles[m].rad
            /\ -particles[m].rad <= particles[m].pos.y
            /\ particles[m].pos.y <= SCREEN_HEIGHT + particles[m].rad

\* C7: the population and every particle's radius and mass are at every
\* point of a run what GameState::new made them, and positive; a particle
\* has no field besides pos, vel, rad, mass and color.
C7_RadMassUnchanged ==
    /\ DOMAIN particles = DOMAIN initial
    /\ \A m \in Indices :
            /\ DOMAIN particles[m] = {"pos", "vel", "rad", "mass", "color"}
            /\ particles[m].rad = initial[m].rad
            /\ particles[m].mass = initial[m].mass
            /\ particles[m].rad > 0
            /\ particles[m].mass > 0

\* After an update, a particle that collided with one of another mass has a
\* new position, velocity and color.
C7_Witness ==
    /\ pc = "idle"
    /\ ticks > 0
    /\ \E pr \in collided :
            /\ initial[pr[1]].mass # initial[pr[2]].mass
            /\ particles[pr[1]].pos # initial[pr[1]].pos
            /\ particles[pr[1]].vel # initial[pr[1]].vel
            /\ particles[pr[1]].color # initial[pr[1]].color

\* C8: a particle that the latest update integrated, that was in no
\* colliding pair of its sweep and for which none of the four wall conditions
\* held, has pos = pos_old + vel_old * dt and
\* vel = vel_old + (A - vel_old^2 * R) * dt component-wise, and its color.
C8_FreeFlight ==
    \A m \in Indices :
        (Moved(m) /\ ~Hit(m) /\ ~AtWall(start[m])) =>
            LET old == start[m]
                dt == time_elapsed
            IN  /\ particles[m].pos =
                        [x |-> old.pos.x + MulDt(old.vel.x, dt),
                         y |-> old.pos.y + MulDt(old.vel.y, dt)]
                /\ particles[m].vel =
                        [x |-> old.vel.x
                                + MulDt(ACCELERATION.x
                                         - FMul(FMul(old.vel.x, old.vel.x),
                                                RESISTANCE.x), dt),
                         y |-> old.vel.y
                                + MulDt(ACCELERATION.y
                                         - FMul(FMul(old.vel.y, old.vel.y),
                                                RESISTANCE.y), dt)]
                /\ particles[m].color = old.color

\* A moving particle has been integrated in free flight by an update in
\* which another pair collided.
C8_Witness ==
    \E m \in Indices :
        /\ Moved(m)
        /\ ~Hit(m)
        /\ ~AtWall(start[m])
        /\ collided # {}
        /\ start[m].vel.x # 0
        /\ particles[m].pos # start[m].pos
        /\ particles[m].vel # start[m].vel

C9_Step ==
    (AtCollision /\ (vel_magnitude(particles'[i]) = 0
                        \/ vel_magnitude(particles'[j]) = 0)) =>
        /\ particles'[i].color = particles[i].color
        /\ particles'[j].color = particles[j].color

\* C9 as stated: when resolving a colliding pair leaves either particle with
\* speed exactly zero, both particles keep the color they had.
C9_ZeroSpeedGuard == [][C9_Step]_vars

\* C10 as stated: a pair that is colliding when the run starts is separated
\* within a few updates: after FewTicks updates it is not colliding, and it
\* has not been found colliding by every sweep since the start.
C10_OverlapResolved ==
    (pc = "idle" /\ ticks >= FewTicks) =>
        \A pr \in AllPairs(num_particles) :
            is_colliding(initial[pr[1]], initial[pr[2]]) =>
                /\ ~is_colliding(particles[pr[1]], particles[pr[2]])
                /\ pr \notin stuck

====
